---- MODULE Spec2Model ----
(***************************************************************************)
(* Model of .github/scripts/terraform_lint.py: the filter of the changed   *)
(* file arguments, the derivation of the tflint work directories and the   *)
(* sequence of external invocations made by main.                          *)
(*                                                                         *)
(* A Python str is a sequence of one-character strings; a pathlib Path is  *)
(* a record [anchor, parts] as PurePosixPath parses it.                    *)
(***************************************************************************)
EXTENDS Integers, Sequences, FiniteSets, TLC

\* ------------------------------------------------------------------------
\* Bounds
\* ------------------------------------------------------------------------

\* Largest number of command-line arguments (len(sys.argv) - 1).
MaxArgs == 3

\* ------------------------------------------------------------------------
\* str
\* ------------------------------------------------------------------------

\* Code points of the characters that occur in the modelled strings.
Ord ==
  "-" :> 45 @@ "." :> 46 @@ "/" :> 47 @@
  "a" :> 97 @@ "b" :> 98 @@ "d" :> 100 @@ "e" :> 101 @@ "f" :> 102 @@
  "h" :> 104 @@ "i" :> 105 @@ "l" :> 108 @@ "m" :> 109 @@ "n" :> 110 @@
  "p" :> 112 @@ "r" :> 114 @@ "s" :> 115 @@ "t" :> 116 @@ "u" :> 117 @@
  "w" :> 119 @@ "x" :> 120 @@ "y" :> 121 @@ "z" :> 122

\* str.startswith
StartsWith(s, prefix) ==
  /\ Len(prefix) <= Len(s)
  /\ SubSeq(s, 1, Len(prefix)) = prefix

\* str.__lt__ : lexicographic by code point, a proper prefix is smaller.
RECURSIVE StrLess(_, _)
StrLess(s, t) ==
  IF t = <<>> THEN FALSE
  ELSE IF s = <<>> THEN TRUE
  ELSE IF s[1] # t[1] THEN Ord[s[1]] < Ord[t[1]]
  ELSE StrLess(Tail(s), Tail(t))

\* list.__lt__ on lists of str.
RECURSIVE ListLess(_, _)
ListLess(a, b) ==
  IF b = <<>> THEN FALSE
  ELSE IF a = <<>> THEN TRUE
  ELSE IF a[1] # b[1] THEN StrLess(a[1], b[1])
  ELSE ListLess(Tail(a), Tail(b))

\* str.split("/") : the components between the separators, empty ones kept.
RECURSIVE SplitSep(_, _)
SplitSep(s, cur) ==
  IF s = <<>> THEN <<cur>>
  ELSE IF s[1] = "/" THEN <<cur>> \o SplitSep(Tail(s), <<>>)
  ELSE SplitSep(Tail(s), Append(cur, s[1]))

\* "/".join(parts)
RECURSIVE JoinSep(_)
JoinSep(parts) ==
  IF parts = <<>> THEN <<>>
  ELSE IF Len(parts) = 1 THEN parts[1]
  ELSE parts[1] \o <<"/">> \o JoinSep(Tail(parts))

\* str.rfind(".") as a 1-based index, 0 when there is no dot.
RFindDot(name) ==
  LET hits == {i \in 1..Len(name) : name[i] = "."}
  IN IF hits = {} THEN 0 ELSE CHOOSE i \in hits : \A j \in hits : j <= i

\* ------------------------------------------------------------------------
\* pathlib
\* ------------------------------------------------------------------------

Dot == <<".">>
DotDot == <<".", ".">>

\* Path(s): PurePosixPath parsing. The separator splits the string, empty
\* and "." components are dropped, ".." is kept, a leading "/" is the root.
\* (No modelled argument starts with exactly two slashes.)
Path(s) ==
  [anchor |-> IF s # <<>> /\ s[1] = "/" THEN "/" ELSE "",
   parts  |-> SelectSeq(SplitSep(s, <<>>), LAMBDA c : c # <<>> /\ c # Dot)]

\* Path.as_posix() / str(path)
as_posix(p) ==
  IF p.anchor = "" /\ p.parts = <<>> THEN Dot
  ELSE (IF p.anchor = "/" THEN <<"/">> ELSE <<>>) \o JoinSep(p.parts)

\* Path.name
PathName(p) == IF p.parts = <<>> THEN <<>> ELSE p.parts[Len(p.parts)]

\* Path.suffix
PathSuffix(p) ==
  LET name == PathName(p)
      i == RFindDot(name)
  IN IF 1 < i /\ i < Len(name) THEN SubSeq(name, i, Len(name)) ELSE <<>>

\* Path.__truediv__ : an absolute right operand replaces the left one.
PathJoin(a, b) ==
  IF b.anchor = "/" THEN b
  ELSE [anchor |-> a.anchor, parts |-> a.parts \o b.parts]

\* Path.parent
PathParent(p) ==
  IF p.parts = <<>> THEN p
  ELSE [anchor |-> p.anchor, parts |-> SubSeq(p.parts, 1, Len(p.parts) - 1)]

\* Path.__lt__ : the paths compare as the lists str(p).split("/").
PathLess(p, q) ==
  ListLess(SplitSep(as_posix(p), <<>>), SplitSep(as_posix(q), <<>>))

\* ------------------------------------------------------------------------
\* File names of the modelled checkout
\* ------------------------------------------------------------------------

InfraAiHub == <<"i","n","f","r","a","-","a","i","-","h","u","b">>
InitialSetup == <<"i","n","i","t","i","a","l","-","s","e","t","u","p">>
Infra == <<"i","n","f","r","a">>
InfraAiHubX == InfraAiHub \o <<"-","x">>
XTf == <<"x",".","t","f">>
YTf == <<"y",".","t","f">>
ZTf == <<"z",".","t","f">>
NTf == <<"n",".","t","f">>
RMd == <<"r",".","m","d">>

\* The regular files of the checkout, as absolute component lists. The
\* checkout is the directory /w.
Checkout ==
  { <<<<"w">>, InfraAiHub, <<"a">>, XTf>>,
    <<<<"w">>, InfraAiHub, <<"a">>, YTf>>,
    <<<<"w">>, InfraAiHub, <<"a">>, RMd>>,
    <<<<"w">>, InfraAiHub, ZTf>>,
    <<<<"w">>, InfraAiHubX, XTf>>,
    <<<<"w">>, InitialSetup, Infra, <<"b">>, ZTf>>,
    <<<<"w">>, <<"d">>, XTf>> }

\* The strings that may be given on the command line.
ArgStrings ==
  { JoinSep(<<InfraAiHub, <<"a">>, XTf>>),
    JoinSep(<<InfraAiHub, <<"a">>, YTf>>),
    JoinSep(<<InitialSetup, Infra, <<"b">>, ZTf>>),
    JoinSep(<<InfraAiHub, ZTf>>),
    <<"/">> \o JoinSep(<<<<"w">>, InfraAiHub, <<"a">>, XTf>>),
    JoinSep(<<InfraAiHub, <<"a">>, RMd>>),
    JoinSep(<<InfraAiHub, <<"a">>, NTf>>),
    JoinSep(<<InfraAiHubX, XTf>>),
    JoinSep(<<InfraAiHub, DotDot, <<"d">>, XTf>>),
    JoinSep(<<<<"a">>, XTf>>) }

\* The directories the script may be started from.
StartDirs == { <<<<"w">>>>, <<<<"w">>, InfraAiHub>> }

\* ------------------------------------------------------------------------
\* The file system as os.stat sees it
\* ------------------------------------------------------------------------

\* Directories are the proper ancestors of the files.
IsDir(d, disk) ==
  \E f \in disk : Len(f) > Len(d) /\ SubSeq(f, 1, Len(d)) = d

\* Path resolution of the operating system: the absolute component list
\* the path names, or <<"ENOENT">> when a component is missing.
ENOENT == <<"ENOENT">>

RECURSIVE Walk(_, _, _)
Walk(cur, rest, disk) ==
  IF rest = <<>> THEN (IF cur \in disk \/ IsDir(cur, disk) THEN cur ELSE ENOENT)
  ELSE IF ~IsDir(cur, disk) THEN ENOENT
  ELSE IF rest[1] = DotDot
       THEN Walk(SubSeq(cur, 1, Len(cur) - 1), Tail(rest), disk)
       ELSE Walk(Append(cur, rest[1]), Tail(rest), disk)

Stat(p, dir, disk) == Walk(IF p.anchor = "/" THEN <<>> ELSE dir, p.parts, disk)

\* Path.exists()
PathExists(p, dir, disk) == Stat(p, dir, disk) # ENOENT

\* ------------------------------------------------------------------------
\* terraform_lint.py
\* ------------------------------------------------------------------------

\* ROOT = Path(__file__).resolve().parents[2]; the script is the file
\* /w/.github/scripts/terraform_lint.py of the checkout.
ROOT == [anchor |-> "/", parts |-> << <<"w">> >>]

TfSuffix == <<".","t","f">>
InitialSetupInfraPrefix ==
  <<"i","n","i","t","i","a","l","-","s","e","t","u","p","/","i","n","f","r","a","/">>
\* The prefix without its closing separator.
InfraAiHubPrefixNoSlash == <<"i","n","f","r","a","-","a","i","-","h","u","b">>

InfraAiHubPrefix == <<"i","n","f","r","a","-","a","i","-","h","u","b","/">>

VARIABLES
  argv,           \* sys.argv[1:]
  cwd,            \* working directory of the process (absolute components)
  fs,             \* the regular files on disk
  pc,             \* position of the script
  changed_files,  \* main: the filtered arguments
  fi,             \* main: position of the fmt loop in changed_files
  workdirs,       \* main: get_tflint_workdirs(changed_files)
  wi,             \* main: position of the tflint loop in workdirs
  log,            \* the external invocations made so far, in order
  ret,            \* {v} once main has returned v, {} before
  uncaught,       \* the exception that left main, "" if none
  exitCode,       \* {c} once the process has exited with status c
  stable,         \* the tools answer alike for the same command and cwd
  memo,           \* stable: the answers given so far
  run,            \* number of the current run of the script
  first           \* the exit status and invocations of the earlier runs

vars == <<argv, cwd, fs, pc, changed_files, fi, workdirs, wi, log, ret,
          uncaught, exitCode, stable, memo, run, first>>

\* What subprocess.run can do: the child exits with a return code (negative
\* when a signal killed it), or it cannot be started and OSError is raised.
ReturnCodes == {0, 1, -9}
Outcomes ==
  {[kind |-> "exit", code |-> c] : c \in ReturnCodes}
    \cup {[kind |-> "oserror", code |-> 0]}

\* run_command: the invocation and the exception it raises, "" if none.
Invocation(command, dir, out) ==
  [command |-> command,
   cwd |-> IF dir = <<>> THEN ROOT ELSE dir[1],
   out |-> out]

\* The return code test as "> 0": a child killed by a signal passes.
RaisesPositive(out) ==
  IF out.kind = "oserror" THEN "OSError"
  ELSE IF out.code > 0 THEN "RuntimeError"
  ELSE ""

\* The return code is not tested at all.
RaisesUnchecked(out) ==
  IF out.kind = "oserror" THEN "OSError" ELSE ""

Raises(out) ==
  IF out.kind = "oserror" THEN "OSError"
  ELSE IF out.code # 0 THEN "RuntimeError"
  ELSE ""

\* The filter without the test of the suffix.
is_under_terraform_roots_any_suffix(path, dir, disk) ==
  IF ~PathExists(path, dir, disk)
  THEN FALSE
  ELSE LET posix_path == as_posix(path)
       IN StartsWith(posix_path, InitialSetupInfraPrefix)
            \/ StartsWith(posix_path, InfraAiHubPrefix)

is_under_terraform_roots(path, dir, disk) ==
  IF ~PathExists(path, dir, disk) \/ PathSuffix(path) # TfSuffix
  THEN FALSE
  ELSE LET posix_path == as_posix(path)
       IN StartsWith(posix_path, InitialSetupInfraPrefix)
            \/ StartsWith(posix_path, InfraAiHubPrefix)

\* The set in descending order.
RECURSIVE SortedDescending(_)
SortedDescending(S) ==
  IF S = {} THEN <<>>
  ELSE LET greatest == CHOOSE p \in S : \A q \in S \ {p} : PathLess(q, p)
       IN <<greatest>> \o SortedDescending(S \ {greatest})

\* sorted(S) for a set of paths.
RECURSIVE Sorted(_)
Sorted(S) ==
  IF S = {} THEN <<>>
  ELSE LET least == CHOOSE p \in S : \A q \in S \ {p} : PathLess(p, q)
       IN <<least>> \o Sorted(S \ {least})

\* The parent directories as a list: neither made a set nor sorted.
get_tflint_workdirs_list(files) ==
  [k \in 1..Len(files) |-> PathParent(PathJoin(ROOT, files[k]))]

\* The set of parent directories iterated without sorted(): the order
\* follows the hash seed of the process, which differs from run to run.
get_tflint_workdirs_set_order(files) ==
  LET S == {PathParent(PathJoin(ROOT, files[k])) : k \in 1..Len(files)}
  IN IF run = 1 THEN Sorted(S) ELSE SortedDescending(S)

get_tflint_workdirs(files) ==
  Sorted({PathParent(PathJoin(ROOT, files[k])) : k \in 1..Len(files)})

\* The three command lines main builds (lines 44-50, 54, 56).
TerraformFmt(file) ==
  [prog |-> "terraform", args |-> <<"fmt", "-check", "-diff">>, file |-> file]
\* tflint started without its --init flag.
TflintInitNoFlag ==
  [prog |-> "tflint", args |-> <<>>, file |-> <<>>]
TflintInit ==
  [prog |-> "tflint", args |-> <<"--init">>, file |-> <<>>]
TflintCheck ==
  [prog |-> "tflint", args |-> <<"--minimum-failure-severity=error">>,
   file |-> <<>>]

\* The outcomes the environment may give to an invocation.
Answers(command, dir) ==
  LET told == {m \in memo : m.command = command /\ m.cwd = dir}
  IN IF stable /\ told # {} THEN {m.out : m \in told} ELSE Outcomes

\* run_command(command, cwd): dir is <<>> for cwd=None, <<d>> for cwd=d.
run_command(command, dir, out) ==
  LET inv == Invocation(command, dir, out)
  IN /\ log' = Append(log, inv)
     /\ memo' = IF stable
                THEN memo \cup {[command |-> command, cwd |-> inv.cwd, out |-> out]}
                ELSE memo

\* except Exception: every exception is caught.
CaughtAny(exc) == exc \in {"RuntimeError", "OSError"}

\* except RuntimeError (line 58): the exceptions the try statement catches.
Caught(exc) == exc = "RuntimeError"

\* The try statement around the two loops: an exception that is caught
\* makes main return 1, any other one leaves main.
TryExcept(exc, nextPc) ==
  /\ pc' = IF exc = "" THEN nextPc
           ELSE IF Caught(exc) THEN "returned" ELSE "raised"
  /\ ret' = IF exc # "" /\ Caught(exc) THEN {1} ELSE ret
  /\ uncaught' = IF exc # "" /\ ~Caught(exc) THEN exc ELSE uncaught

\* The list comprehension without its condition.
FilterArgsKeepAll(args, dir, disk) ==
  [k \in 1..Len(args) |-> Path(args[k])]

\* changed_files = [Path(f) for f in sys.argv[1:] if is_under_terraform_roots(Path(f))]
FilterArgs(args, dir, disk) ==
  LET paths == [k \in 1..Len(args) |-> Path(args[k])]
  IN SelectSeq(paths, LAMBDA p : is_under_terraform_roots(p, dir, disk))

\* main, lines 32-39: the filter and the early return.
main_filter ==
  /\ pc = "start"
  /\ changed_files' = FilterArgs(argv, cwd, fs)
  /\ IF changed_files' = <<>>
     THEN pc' = "returned" /\ ret' = {0}
     ELSE pc' = "fmt" /\ ret' = ret
  /\ fi' = 1
  /\ UNCHANGED <<argv, cwd, fs, workdirs, wi, log, uncaught, exitCode,
                 stable, memo, run, first>>

\* main, lines 42-51: one iteration of the fmt loop.
main_fmt ==
  /\ pc = "fmt"
  /\ fi <= Len(changed_files)
  /\ LET terraform_file == changed_files[fi]
         command == TerraformFmt(as_posix(PathJoin(ROOT, terraform_file)))
     IN \E out \in Answers(command, ROOT) :
          /\ run_command(command, <<>>, out)
          /\ TryExcept(Raises(out), "fmt")
          /\ fi' = IF Raises(out) = "" THEN fi + 1 ELSE fi
  /\ UNCHANGED <<argv, cwd, fs, changed_files, workdirs, wi, exitCode,
                 stable, run, first>>

\* main, line 53: the fmt loop is exhausted, the work directories are derived.
main_workdirs ==
  /\ pc = "fmt"
  /\ fi > Len(changed_files)
  /\ workdirs' = get_tflint_workdirs(changed_files)
  /\ wi' = 1
  /\ pc' = "init"
  /\ UNCHANGED <<argv, cwd, fs, changed_files, fi, log, ret, uncaught,
                 exitCode, stable, memo, run, first>>

\* main, line 54: tflint --init in the current work directory.
main_tflint_init ==
  /\ pc = "init"
  /\ wi <= Len(workdirs)
  /\ LET terraform_workdir == workdirs[wi]
     IN \E out \in Answers(TflintInit, terraform_workdir) :
          /\ run_command(TflintInit, <<terraform_workdir>>, out)
          /\ TryExcept(Raises(out), "check")
  /\ UNCHANGED <<argv, cwd, fs, changed_files, fi, workdirs, wi, exitCode,
                 stable, run, first>>

\* main, lines 55-57: the tflint check in the current work directory.
main_tflint_check ==
  /\ pc = "check"
  /\ LET terraform_workdir == workdirs[wi]
     IN \E out \in Answers(TflintCheck, terraform_workdir) :
          /\ run_command(TflintCheck, <<terraform_workdir>>, out)
          /\ TryExcept(Raises(out), "init")
          /\ wi' = IF Raises(out) = "" THEN wi + 1 ELSE wi
  /\ UNCHANGED <<argv, cwd, fs, changed_files, fi, workdirs, exitCode,
                 stable, run, first>>

\* main, line 61: both loops are exhausted.
main_return ==
  /\ pc = "init"
  /\ wi > Len(workdirs)
  /\ ret' = {0}
  /\ pc' = "returned"
  /\ UNCHANGED <<argv, cwd, fs, changed_files, fi, workdirs, wi, log,
                 uncaught, exitCode, stable, memo, run, first>>

\* Line 65, sys.exit(main()): the return value becomes the exit status.
sys_exit ==
  /\ pc = "returned"
  /\ exitCode' = ret
  /\ pc' = "exited"
  /\ UNCHANGED <<argv, cwd, fs, changed_files, fi, workdirs, wi, log, ret,
                 uncaught, stable, memo, run, first>>

\* Line 65 when main raised: the interpreter prints the traceback of the
\* uncaught exception and exits with status 1.
sys_excepthook ==
  /\ pc = "raised"
  /\ exitCode' = {1}
  /\ pc' = "exited"
  /\ UNCHANGED <<argv, cwd, fs, changed_files, fi, workdirs, wi, log, ret,
                 uncaught, stable, memo, run, first>>

\* The script is started again with the same arguments, from the same
\* directory, on the same disk: a new process, nothing of the old one is left.
MaxRuns == 2

rerun ==
  /\ pc = "exited"
  /\ run < MaxRuns
  /\ first' = Append(first, [exitCode |-> exitCode, log |-> log,
                             changed_files |-> changed_files])
  /\ run' = run + 1
  /\ pc' = "start"
  /\ changed_files' = <<>>
  /\ workdirs' = <<>>
  /\ fi' = 1
  /\ wi' = 1
  /\ log' = <<>>
  /\ ret' = {}
  /\ uncaught' = ""
  /\ exitCode' = {}
  /\ UNCHANGED <<argv, cwd, fs, stable, memo>>

ArgLists == UNION {[1..n -> ArgStrings] : n \in 0..MaxArgs}

InitRun ==
  /\ argv \in ArgLists
  /\ cwd \in StartDirs
  /\ fs = Checkout
  /\ pc = "start"
  /\ changed_files = <<>>
  /\ workdirs = <<>>
  /\ fi = 1
  /\ wi = 1
  /\ log = <<>>
  /\ ret = {}
  /\ uncaught = ""
  /\ exitCode = {}
  /\ memo = {}
  /\ run = 1
  /\ first = <<>>

\* One run; every invocation may end in any way.
Init == InitRun /\ stable = FALSE

Next ==
  \/ main_filter
  \/ main_fmt
  \/ main_workdirs
  \/ main_tflint_init
  \/ main_tflint_check
  \/ main_return
  \/ sys_exit
  \/ sys_excepthook

Spec == Init /\ [][Next]_vars

\* Successive runs; the tools answer alike for the same command and cwd.
InitRepeat == InitRun /\ stable = TRUE

NextRepeat == Next \/ rerun

SpecRepeat == InitRepeat /\ [][NextRepeat]_vars

\* ------------------------------------------------------------------------
\* Vocabulary of the properties
\* ------------------------------------------------------------------------

ArgPaths == [k \in 1..Len(argv) |-> Path(argv[k])]

Finished == pc = "exited"

IsFmt(inv) == inv.command.prog = "terraform"
IsInit(inv) == inv.command.prog = "tflint" /\ inv.command.args = <<"--init">>
IsLint(inv) ==
  inv.command.prog = "tflint"
    /\ inv.command.args = <<"--minimum-failure-severity=error">>

ExitedNonZero(inv) == inv.out.kind = "exit" /\ inv.out.code # 0
ExitedZero(inv) == inv.out.kind = "exit" /\ inv.out.code = 0
NotStarted(inv) == inv.out.kind = "oserror"

AnyNonZero == \E k \in 1..Len(log) : ExitedNonZero(log[k])
AllZero == \A k \in 1..Len(log) : ExitedZero(log[k])
AnyNotStarted == \E k \in 1..Len(log) : NotStarted(log[k])

\* The name ends in ".tf" and has something before it.
EndsInTf(name) ==
  /\ Len(name) > 3
  /\ name[Len(name) - 2] = "." /\ name[Len(name) - 1] = "t" /\ name[Len(name)] = "f"

\* A path qualifies by the text it was given as: it names something on disk,
\* its name ends in .tf, it is relative and its leading components are
\* infra-ai-hub or initial-setup/infra, with something below them.
QualifiesAsGiven(p) ==
  /\ Stat(p, cwd, fs) # ENOENT
  /\ EndsInTf(PathName(p))
  /\ p.anchor = ""
  /\ \/ Len(p.parts) >= 2 /\ p.parts[1] = InfraAiHub
     \/ Len(p.parts) >= 3 /\ p.parts[1] = InitialSetup /\ p.parts[2] = Infra

\* The forward-slash form of the place a path names, relative to the
\* repository root; <<"ENOENT">> when it names nothing under the root.
RootRelative(p) ==
  LET place == Stat(p, cwd, fs)
      n == Len(ROOT.parts)
  IN IF place # ENOENT /\ Len(place) > n /\ SubSeq(place, 1, n) = ROOT.parts
     THEN JoinSep(SubSeq(place, n + 1, Len(place)))
     ELSE ENOENT

\* A path qualifies by the place it names under the repository root.
QualifiesByRoot(p) ==
  /\ Stat(p, cwd, fs) # ENOENT
  /\ EndsInTf(PathName(p))
  /\ \/ StartsWith(RootRelative(p), InitialSetupInfraPrefix)
     \/ StartsWith(RootRelative(p), InfraAiHubPrefix)

Qualifying == SelectSeq(ArgPaths, QualifiesAsGiven)

\* The directory that holds a relative file of the checkout.
HoldingDir(p) ==
  [anchor |-> "/",
   parts |-> ROOT.parts \o SubSeq(p.parts, 1, Len(p.parts) - 1)]

HoldingDirs(files) == {HoldingDir(files[k]) : k \in 1..Len(files)}

CountLog(Test(_)) == Cardinality({k \in 1..Len(log) : Test(log[k])})

\* ------------------------------------------------------------------------
\* C1
\* ------------------------------------------------------------------------

\* C1 as stated: the arguments kept by the filter are exactly those that
\* exist, have the extension .tf and whose form relative to the repository
\* root starts with initial-setup/infra/ or infra-ai-hub/.
C1_AsStated ==
  pc # "start" => changed_files = SelectSeq(ArgPaths, QualifiesByRoot)

\* C1 amended: is_under_terraform_roots(p) is true exactly when p exists
\* (seen from the current directory), its name ends in .tf and the path as
\* given, not made relative to the root, starts with one of the two prefixes;
\* absolute paths never qualify.
C1_QualifyAsGiven ==
  /\ pc = "start" =>
       \A k \in 1..Len(argv) :
         is_under_terraform_roots(ArgPaths[k], cwd, fs)
           <=> QualifiesAsGiven(ArgPaths[k])
  /\ pc # "start" => changed_files = Qualifying

C1_Witness ==
  /\ pc # "start"
  /\ changed_files # <<>>
  /\ \E k \in 1..Len(argv) :
       ArgPaths[k].anchor = "/" /\ QualifiesByRoot(ArgPaths[k])
  /\ \E k \in 1..Len(argv) :
       ~PathExists(ArgPaths[k], cwd, fs) \/ ~EndsInTf(PathName(ArgPaths[k]))

\* ------------------------------------------------------------------------
\* C2
\* ------------------------------------------------------------------------

\* C2: with no qualifying argument main returns 0 and the run makes no
\* external invocation at any point.
C2_NoOpFastPath ==
  \/ /\ log = <<>>
     /\ uncaught = ""
     /\ pc # "start" => ret = {0}
     /\ Finished => exitCode = {0}
  \/ Qualifying # <<>>

C2_Witness ==
  /\ Finished
  /\ Len(argv) >= 2
  /\ Qualifying = <<>>
  /\ \E k \in 1..Len(argv) : ~EndsInTf(PathName(ArgPaths[k]))
  /\ \E k \in 1..Len(argv) : ~PathExists(ArgPaths[k], cwd, fs)

\* ------------------------------------------------------------------------
\* C3
\* ------------------------------------------------------------------------

\* C3: with a qualifying file, main returns 1 if an invocation exited
\* non-zero and 0 if every invocation exited with 0; 0 is never returned
\* after a non-zero exit.
C3_ExitCodeAggregates ==
  /\ AnyNonZero => ret # {0} /\ exitCode # {0}
  /\ (Finished /\ Qualifying # <<>> /\ AnyNonZero) => ret = {1} /\ exitCode = {1}
  /\ (Finished /\ Qualifying # <<>> /\ AllZero) => ret = {0} /\ exitCode = {0}

\* Every fmt check passed and a tflint step failed.
C3_Witness ==
  /\ Finished
  /\ ret = {1}
  /\ Len(log) > Len(changed_files)
  /\ ExitedNonZero(log[Len(log)])
  /\ log[Len(log)].out.code < 0

\* ------------------------------------------------------------------------
\* C5
\* ------------------------------------------------------------------------

\* C5: an invocation that exited non-zero is the last invocation of the run,
\* and main returns 1 right after it.
C5_ShortCircuit ==
  \A k \in 1..Len(log) :
    ExitedNonZero(log[k]) =>
      /\ k = Len(log)
      /\ pc \in {"returned", "exited"}
      /\ ret = {1}

\* tflint --init failed in a directory that is not the last one.
C5_Witness ==
  /\ Finished
  /\ log # <<>>
  /\ IsInit(log[Len(log)])
  /\ ExitedNonZero(log[Len(log)])
  /\ wi < Len(workdirs)

\* ------------------------------------------------------------------------
\* C6
\* ------------------------------------------------------------------------

\* C6 as stated: a tool that cannot be started is caught in main, which
\* returns 1.
C6_AsStated ==
  (Finished /\ AnyNotStarted) => ret = {1} /\ uncaught = ""

\* C6 amended: a tool that cannot be started is not caught in main: the
\* OSError leaves main, which returns nothing; no further invocation is
\* made and the interpreter ends the process with status 1.
C6_OSErrorPropagates ==
  \A k \in 1..Len(log) :
    NotStarted(log[k]) =>
      /\ k = Len(log)
      /\ ret = {}
      /\ uncaught = "OSError"
      /\ pc \in {"raised", "exited"}
      /\ Finished => exitCode = {1}

C6_Witness ==
  /\ Finished
  /\ AnyNotStarted
  /\ Len(log) > 1

\* ------------------------------------------------------------------------
\* C4
\* ------------------------------------------------------------------------

Permuted(files, f) == [k \in 1..Len(files) |-> files[f[k]]]

Bijections(n) == {f \in [1..n -> 1..n] : \A a, b \in 1..n : f[a] = f[b] => a = b}

\* C4: the work directories are exactly the directories holding the
\* files, without duplicates, in ascending order, and they are the same for
\* every reordering of the files and for every file given once more.
C4_WorkdirsSortedDistinct ==
  pc \in {"init", "check"} =>
    /\ {workdirs[k] : k \in 1..Len(workdirs)} = HoldingDirs(changed_files)
    /\ \A k \in 1..(Len(workdirs) - 1) : PathLess(workdirs[k], workdirs[k + 1])
    /\ \A a, b \in 1..Len(workdirs) : workdirs[a] = workdirs[b] => a = b
    /\ \A f \in Bijections(Len(changed_files)) :
         get_tflint_workdirs(Permuted(changed_files, f)) = workdirs
    /\ \A k \in 1..Len(changed_files) :
         get_tflint_workdirs(Append(changed_files, changed_files[k])) = workdirs

\* Two files of one directory and a file of another one, given in an order
\* that is not the sorted order of their directories.
C4_Witness ==
  /\ pc = "init"
  /\ Len(workdirs) >= 2
  /\ Len(changed_files) > Len(workdirs)
  /\ PathLess(HoldingDir(changed_files[Len(changed_files)]),
              HoldingDir(changed_files[1]))

\* ------------------------------------------------------------------------
\* C7
\* ------------------------------------------------------------------------

C8_InvocationOrder ==
  (Finished /\ AllZero /\ uncaught = "") =>
    LET files == Qualifying
        n == Len(files)
        dirs == HoldingDirs(files)
        m == Cardinality(dirs)
    IN /\ Len(log) = n + 2 * m
       /\ \A k \in 1..n :
            /\ IsFmt(log[k])
            /\ log[k].command.args = <<"fmt", "-check", "-diff">>
            /\ log[k].command.file =
                 as_posix(ROOT) \o <<"/">> \o as_posix(files[k])
            /\ log[k].cwd = ROOT
       /\ \A t \in 1..m :
            /\ IsInit(log[n + 2 * t - 1])
            /\ IsLint(log[n + 2 * t])
            /\ log[n + 2 * t - 1].cwd = log[n + 2 * t].cwd
            /\ log[n + 2 * t].cwd \in dirs
            /\ log[n + 2 * t].command.file = <<>>
            /\ t < m => PathLess(log[n + 2 * t].cwd, log[n + 2 * t + 2].cwd)

\* A run without failure over two directories given in descending order.
C8_Witness ==
  /\ Finished
  /\ AllZero
  /\ Len(changed_files) >= 2
  /\ Len(workdirs) >= 2
  /\ PathLess(HoldingDir(changed_files[2]), HoldingDir(changed_files[1]))

\* ------------------------------------------------------------------------
\* C9
\* ------------------------------------------------------------------------

QualifiedArgs ==
  {k \in 1..Len(argv) : is_under_terraform_roots(ArgPaths[k], cwd, fs)}

\* C9: terraform fmt is only invoked on ROOT joined with an argument that
\* is_under_terraform_roots accepted, tflint only in the parent directory
\* of such an argument.
C9_OnlyQualifyingTargets ==
  LET accepted == {ArgPaths[k] : k \in QualifiedArgs}
      targets == {as_posix(PathJoin(ROOT, p)) : p \in accepted}
      parents == {PathParent(PathJoin(ROOT, p)) : p \in accepted}
  IN \A i \in 1..Len(log) :
       /\ IsFmt(log[i]) => log[i].command.file \in targets
       /\ ~IsFmt(log[i]) => log[i].cwd \in parents

\* Tools have run although some argument did not qualify.
C9_Witness ==
  /\ \E i \in 1..Len(log) : IsLint(log[i])
  /\ QualifiedArgs # 1..Len(argv)

\* ------------------------------------------------------------------------
\* C10
\* ------------------------------------------------------------------------

InitsIn(d) == Cardinality({i \in 1..Len(log) : IsInit(log[i]) /\ log[i].cwd = d})
LintsIn(d) == Cardinality({i \in 1..Len(log) : IsLint(log[i]) /\ log[i].cwd = d})

\* C10: there are at most as many fmt invocations as qualifying arguments
\* and at most one tflint --init and one tflint check per work directory;
\* in a finished run without failure there are exactly as many.
C10_NoRepeats ==
  LET files == Qualifying
      dirs == HoldingDirs(files)
  IN /\ CountLog(IsFmt) <= Len(files)
     /\ \A i \in 1..Len(log) : ~IsFmt(log[i]) => log[i].cwd \in dirs
     /\ \A d \in dirs : InitsIn(d) <= 1 /\ LintsIn(d) <= 1
     /\ (Finished /\ AllZero) =>
          /\ CountLog(IsFmt) = Len(files)
          /\ \A d \in dirs : InitsIn(d) = 1 /\ LintsIn(d) = 1

\* One path given twice, a second file of the same directory, no failure.
C10_Witness ==
  /\ Finished
  /\ AllZero
  /\ Len(changed_files) = 3
  /\ changed_files[1] = changed_files[3]
  /\ changed_files[1] # changed_files[2]
  /\ Len(workdirs) = 1

====
